---------------------------- MODULE Spec2Model ----------------------------
(***************************************************************************)
(* A model of package build (gophertest/build): the cmdTools invoker of    *)
(* the go toolchain's asm, compile, link, pack and buildid tools, and of   *)
(* `go version` / `go env`.                                                *)
(*                                                                         *)
(* Go strings are TLA+ strings; Len, SubSeq and \o act on them character   *)
(* by character.  A []string is a sequence of strings.                     *)
(***************************************************************************)
EXTENDS Integers, Sequences, FiniteSets, TLC

VARIABLES
    ct,          \* the *cmdTools instance: binaries, prefix args, mutex, version
    DebugLog,    \* the package variable DebugLog
    environ,     \* os.Environ() of the invoking process
    pc,          \* per Version caller: where it is inside Version()
    started,     \* per Version caller: number of Version calls returned when it called
    proc,        \* per Version caller: the subprocess it is running, or NoProc
    ret,         \* per Version caller: the (string, error) it is about to return,
                 \* whether it ran a subprocess and what that wrote to stdout
    log,         \* the Version calls that returned, in order of return
    spawned,     \* number of `go version` subprocesses started so far
    stderrCopies,\* number of times a subprocess's stderr was copied to os.Stderr
    call,         \* the tool call in progress (Assemble, ..., env), or NoCall
    ctxCount     \* BuildCtx calls made and `go env` subprocesses spawned

vars == <<ct, DebugLog, environ, pc, started, proc, ret, log, spawned,
          stderrCopies, call, ctxCount>>

versionVars == <<pc, started, proc, ret, log, spawned, stderrCopies>>

---------------------------------------------------------------------------
(* Bounds of the model. *)

\* Number of goroutines that call Version on the one instance.
NumCallers == 2

\* Total number of Version calls made by all callers together.
MaxCalls == 3

\* Longest inherited environment.
MaxEnv == 3

\* Largest number of optional fields populated in one Args record.
MaxPopulated == 2

---------------------------------------------------------------------------
(* Strings. *)

Nil == "<nil>"

\* unicode.IsSpace on the characters a TLA+ string can hold.
IsSpace(ch) == ch \in {" ", "\t", "\n", "\r", "\f"}

RECURSIVE TrimLeft(_)
TrimLeft(s) ==
    IF Len(s) = 0 THEN s
    ELSE IF IsSpace(SubSeq(s, 1, 1)) THEN TrimLeft(SubSeq(s, 2, Len(s)))
    ELSE s

RECURSIVE TrimRight(_)
TrimRight(s) ==
    IF Len(s) = 0 THEN s
    ELSE IF IsSpace(SubSeq(s, Len(s), Len(s))) THEN TrimRight(SubSeq(s, 1, Len(s) - 1))
    ELSE s

\* strings.TrimSpace
TrimSpace(s) == TrimRight(TrimLeft(s))

\* strings.HasPrefix
HasPrefix(s, prefix) ==
    Len(s) >= Len(prefix) /\ SubSeq(s, 1, Len(prefix)) = prefix

\* strings.Join
RECURSIVE Join(_, _)
Join(elems, sep) ==
    IF Len(elems) = 0 THEN ""
    ELSE IF Len(elems) = 1 THEN elems[1]
    ELSE elems[1] \o sep \o Join(Tail(elems), sep)

Digit(d) == SubSeq("0123456789", d + 1, d + 1)

RECURSIVE FormatNat(_)
FormatNat(n) == IF n < 10 THEN Digit(n) ELSE FormatNat(n \div 10) \o Digit(n % 10)

\* strconv.Itoa, and fmt's %#v of an int-kinded value: the decimal numeral.
Itoa(n) == IF n < 0 THEN "-" \o FormatNat(0 - n) ELSE FormatNat(n)

---------------------------------------------------------------------------
(* The tool configuration. *)

NoOne == 0

\* DefaultTools: the binaries of the running toolchain, no prefix arguments.
DefaultTools ==
    [ mutex |-> NoOne,
      Go |-> "go", GoArgs |-> << >>,
      Assembler |-> "tool/asm", AssemblerArgs |-> << >>,
      Compiler |-> "tool/compile", CompilerArgs |-> << >>,
      Linker |-> "tool/link", LinkerArgs |-> << >>,
      Packer |-> "tool/pack", PackerArgs |-> << >>,
      BuildIDer |-> "tool/buildid", BuildIDerArgs |-> << >>,
      version |-> "" ]

\* The configuration the tests build: the test binary stands in for every tool.
TestTools ==
    [ mutex |-> NoOne,
      Go |-> "build.test", GoArgs |-> << "-test.run=TestGo" >>,
      Assembler |-> "build.test", AssemblerArgs |-> << "-test.run=TestAssembler", "--" >>,
      Compiler |-> "build.test", CompilerArgs |-> << "-test.run=TestCompiler", "--" >>,
      Linker |-> "build.test", LinkerArgs |-> << "-test.run=TestLinker", "--" >>,
      Packer |-> "build.test", PackerArgs |-> << "-test.run=TestPacker", "--" >>,
      BuildIDer |-> "build.test", BuildIDerArgs |-> << "-test.run=TestBuildID", "--" >>,
      version |-> "" ]

Configs == {DefaultTools, TestTools}

\* An environment every specification but SpecEnv starts from.
BaseEnviron == << "PATH=/bin", "GOOS=plan9", "TEST_SUBPROCESS=1" >>

---------------------------------------------------------------------------
(* Version. *)

Callers == 1 .. NumCallers

NoProc == [path |-> "", args |-> << >>]

NoRet == [s |-> "", err |-> Nil, ran |-> FALSE, out |-> ""]

\* What `go version` may write to its standard output when it exits 0.
VersionOutputs == {"", " \n", "go version go1.14 linux/amd64\n", " go1.15"}

\* The errors cmd.Run() may return: the binary cannot start, or exits non-zero.
RunErrors == {"exec: not found", "exit status 1"}

CallsMade == Len(log) + Cardinality({c \in Callers : pc[c] # "idle"})

\* A caller enters Version and blocks in ct.mutex.Lock().
VersionCall(c) ==
    /\ pc[c] = "idle"
    /\ CallsMade < MaxCalls
    /\ pc' = [pc EXCEPT ![c] = "lock"]
    /\ started' = [started EXCEPT ![c] = Len(log)]
    /\ UNCHANGED <<ct, DebugLog, environ, proc, ret, log, spawned, stderrCopies, call, ctxCount>>

\* Version without mutual exclusion: Lock() returns although the mutex is held.
VersionLock_NoMutex(c) ==
    /\ pc[c] = "lock"
    /\ ct' = [ct EXCEPT !.mutex = c]
    /\ pc' = [pc EXCEPT ![c] = "check"]
    /\ UNCHANGED <<DebugLog, environ, started, proc, ret, log, spawned, stderrCopies, call, ctxCount>>

\* ct.mutex.Lock() returns: the mutex was free and is now held by c.
VersionLock(c) ==
    /\ pc[c] = "lock"
    /\ ct.mutex = NoOne
    /\ ct' = [ct EXCEPT !.mutex = c]
    /\ pc' = [pc EXCEPT ![c] = "check"]
    /\ UNCHANGED <<DebugLog, environ, started, proc, ret, log, spawned, stderrCopies, call, ctxCount>>

\* if ct.version != "" { return ct.version, nil }
VersionCached(c) ==
    /\ pc[c] = "check"
    /\ ct.version # ""
    /\ ret' = [ret EXCEPT ![c] = [s |-> ct.version, err |-> Nil, ran |-> FALSE, out |-> ""]]
    /\ pc' = [pc EXCEPT ![c] = "unlock"]
    /\ UNCHANGED <<ct, DebugLog, environ, started, proc, log, spawned, stderrCopies, call, ctxCount>>

\* The cache is empty: build the command line and start `go version`.
VersionSpawn(c) ==
    /\ pc[c] = "check"
    /\ ct.version = ""
    /\ proc' = [proc EXCEPT ![c] = [path |-> ct.Go, args |-> ct.GoArgs \o << "version" >>]]
    /\ spawned' = spawned + 1
    /\ pc' = [pc EXCEPT ![c] = "run"]
    /\ UNCHANGED <<ct, DebugLog, environ, started, ret, log, stderrCopies, call, ctxCount>>

\* Version memoizing the raw output and returning it untrimmed.
VersionRunOK_Untrimmed(c, out) ==
    /\ pc[c] = "run"
    /\ ct' = [ct EXCEPT !.version = out]
    /\ ret' = [ret EXCEPT ![c] = [s |-> ct'.version, err |-> Nil, ran |-> TRUE, out |-> out]]
    /\ proc' = [proc EXCEPT ![c] = NoProc]
    /\ pc' = [pc EXCEPT ![c] = "unlock"]
    /\ UNCHANGED <<DebugLog, environ, started, log, spawned, stderrCopies, call, ctxCount>>

\* cmd.Run() returns nil: memoize the trimmed output and return it.
VersionRunOK(c, out) ==
    /\ pc[c] = "run"
    /\ ct' = [ct EXCEPT !.version = TrimSpace(out)]
    /\ ret' = [ret EXCEPT ![c] = [s |-> ct'.version, err |-> Nil, ran |-> TRUE, out |-> out]]
    /\ proc' = [proc EXCEPT ![c] = NoProc]
    /\ pc' = [pc EXCEPT ![c] = "unlock"]
    /\ UNCHANGED <<DebugLog, environ, started, log, spawned, stderrCopies, call, ctxCount>>

\* Version memoizing on failure too: the error text poisons the cache.
VersionRunFail_Poison(c, err) ==
    /\ pc[c] = "run"
    /\ stderrCopies' = stderrCopies + 1
    /\ ct' = [ct EXCEPT !.version = err]
    /\ ret' = [ret EXCEPT ![c] = [s |-> "", err |-> err, ran |-> TRUE, out |-> ""]]
    /\ proc' = [proc EXCEPT ![c] = NoProc]
    /\ pc' = [pc EXCEPT ![c] = "unlock"]
    /\ UNCHANGED <<DebugLog, environ, started, log, spawned, call, ctxCount>>

\* cmd.Run() returns an error: forward stderr, return "", err.
VersionRunFail(c, err) ==
    /\ pc[c] = "run"
    /\ stderrCopies' = stderrCopies + 1
    /\ ret' = [ret EXCEPT ![c] = [s |-> "", err |-> err, ran |-> TRUE, out |-> ""]]
    /\ proc' = [proc EXCEPT ![c] = NoProc]
    /\ pc' = [pc EXCEPT ![c] = "unlock"]
    /\ UNCHANGED <<ct, DebugLog, environ, started, log, spawned, call, ctxCount>>

\* Version unlocking before a successful return only, not in a defer.
VersionUnlock_OnSuccessOnly(c) ==
    /\ pc[c] = "unlock"
    /\ ct' = IF ret[c].err = Nil THEN [ct EXCEPT !.mutex = NoOne] ELSE ct
    /\ log' = Append(log, [caller |-> c, started |-> started[c],
                           s |-> ret[c].s, err |-> ret[c].err, ran |-> ret[c].ran,
                           out |-> ret[c].out])
    /\ pc' = [pc EXCEPT ![c] = "idle"]
    /\ ret' = [ret EXCEPT ![c] = NoRet]
    /\ UNCHANGED <<DebugLog, environ, started, proc, spawned, stderrCopies, call, ctxCount>>

\* The deferred ct.mutex.Unlock() runs and Version returns to its caller.
VersionUnlock(c) ==
    /\ pc[c] = "unlock"
    /\ ct' = [ct EXCEPT !.mutex = NoOne]
    /\ log' = Append(log, [caller |-> c, started |-> started[c],
                           s |-> ret[c].s, err |-> ret[c].err, ran |-> ret[c].ran,
                           out |-> ret[c].out])
    /\ pc' = [pc EXCEPT ![c] = "idle"]
    /\ ret' = [ret EXCEPT ![c] = NoRet]
    /\ UNCHANGED <<DebugLog, environ, started, proc, spawned, stderrCopies, call, ctxCount>>

---------------------------------------------------------------------------
(* The environment overlay. *)

\* go/build.Context, the fields env reads.
ZeroContext ==
    [GOARCH |-> "", GOOS |-> "", GOROOT |-> "", GOPATH |-> "", CgoEnabled |-> FALSE]

TestContext ==
    [GOARCH |-> "goarch", GOOS |-> "goos", GOROOT |-> "go/root", GOPATH |-> "go/path",
     CgoEnabled |-> TRUE]

CrossContext ==
    [GOARCH |-> "arm64", GOOS |-> "linux", GOROOT |-> "/usr/go", GOPATH |-> "/home/go",
     CgoEnabled |-> FALSE]

Contexts == {ZeroContext, TestContext, CrossContext}

\* The cases of env's switch that drop an inherited entry.
Stripped(v) ==
    \/ HasPrefix(v, "GOARCH")
    \/ HasPrefix(v, "GOOS")
    \/ HasPrefix(v, "GOROOT")
    \/ HasPrefix(v, "GOPATH")
    \/ HasPrefix(v, "CGO_ENABLED")

\* The default case of env's switch.
Kept(v) == ~Stripped(v)

\* env with the GOPATH case of the switch forgotten.
env_KeepsGOPATH(buildCtx) ==
    LET keep(v) == ~(\/ HasPrefix(v, "GOARCH")
                     \/ HasPrefix(v, "GOOS")
                     \/ HasPrefix(v, "GOROOT")
                     \/ HasPrefix(v, "CGO_ENABLED"))
    IN  SelectSeq(environ, keep)
        \o << "GOARCH=" \o buildCtx.GOARCH,
              "GOOS=" \o buildCtx.GOOS,
              "GOROOT=" \o buildCtx.GOROOT,
              "GOPATH=" \o buildCtx.GOPATH >>
        \o (IF buildCtx.CgoEnabled THEN << "CGO_ENABLED=1" >> ELSE << "CGO_ENABLED=0" >>)

\* (ct *cmdTools) env
env(buildCtx) ==
    SelectSeq(environ, Kept)
    \o << "GOARCH=" \o buildCtx.GOARCH,
          "GOOS=" \o buildCtx.GOOS,
          "GOROOT=" \o buildCtx.GOROOT,
          "GOPATH=" \o buildCtx.GOPATH >>
    \o (IF buildCtx.CgoEnabled THEN << "CGO_ENABLED=1" >> ELSE << "CGO_ENABLED=0" >>)

---------------------------------------------------------------------------
(* Flag serialization. *)

\* if cond { cmdArgs = append(cmdArgs, tokens...) }
If(cond, tokens) == IF cond THEN tokens ELSE << >>

\* The range loop appending the flag once and then every value.
Each_FlagOnce(flag, list) ==
    IF Len(list) = 0 THEN << >> ELSE << flag >> \o list

\* for _, v := range list { cmdArgs = append(cmdArgs, flag, v) }
RECURSIVE Each(_, _)
Each(flag, list) ==
    IF Len(list) = 0 THEN << >>
    ELSE << flag, Head(list) >> \o Each(flag, Tail(list))

\* Assemble's command line with -o emitted after the list flags when -trimpath
\* is absent.
AssembleCmdArgs_OrderDepends(tools, args) ==
    tools.AssemblerArgs
    \o If(args.TrimPath # "", << "-trimpath", args.TrimPath >>)
    \o If(args.TrimPath # "" /\ args.OutputFile # "", << "-o", args.OutputFile >>)
    \o Each("-I", args.IncludeDirs)
    \o Each("-D", args.Defines)
    \o If(args.TrimPath = "" /\ args.OutputFile # "", << "-o", args.OutputFile >>)
    \o If(args.GenSymABIs, << "-gensymabis" >>)
    \o If(args.Shared, << "-shared" >>)
    \o If(args.DynamicLink, << "-dynlink" >>)
    \o args.Files

\* The cmdArgs Assemble builds.
AssembleCmdArgs(tools, args) ==
    tools.AssemblerArgs
    \o If(args.TrimPath # "", << "-trimpath", args.TrimPath >>)
    \o If(args.OutputFile # "", << "-o", args.OutputFile >>)
    \o Each("-I", args.IncludeDirs)
    \o Each("-D", args.Defines)
    \o If(args.GenSymABIs, << "-gensymabis" >>)
    \o If(args.Shared, << "-shared" >>)
    \o If(args.DynamicLink, << "-dynlink" >>)
    \o args.Files

\* The cmdArgs Compile builds.
CompileCmdArgs(tools, args) ==
    tools.CompilerArgs
    \o If(args.TrimPath # "", << "-trimpath", args.TrimPath >>)
    \o If(args.OutputFile # "", << "-o", args.OutputFile >>)
    \o If(args.BuildID # "", << "-buildid", args.BuildID >>)
    \o If(args.DisableBoundsChecking, << "-B" >>)
    \o If(args.CompilingRuntimeLibrary, << "-+" >>)
    \o If(args.DisableOptimizations, << "-N" >>)
    \o If(args.RelativeImportPath # "", << "-D", args.RelativeImportPath >>)
    \o Each("-I", args.IncludeDirs)
    \o If(args.Concurrency # 0, << "-D", Itoa(args.Concurrency) >>)
    \o If(args.AsmHeaderFile # "", << "-asmhdr", args.AsmHeaderFile >>)
    \o If(args.Complete, << "-complete" >>)
    \o If(args.DynamicLink, << "-dynlink" >>)
    \o If(args.GoVersion # "", << "-goversion", args.GoVersion >>)
    \o If(args.HaltOnError, << "-h" >>)
    \o If(args.ImportConfigFile # "", << "-importcfg", args.ImportConfigFile >>)
    \o Each("-importmap", args.ImportMap)
    \o If(args.InstallSuffix # "", << "-installsuffix", args.InstallSuffix >>)
    \o If(args.DisableInlining, << "-l" >>)
    \o If(args.LinkObjectOutputFile # "", << "-linkobj", args.LinkObjectOutputFile >>)
    \o If(args.MSan, << "-msan" >>)
    \o If(args.NoLocalImports, << "-nolocalimports" >>)
    \o If(args.PackageImportPath # "", << "-p", args.PackageImportPath >>)
    \o If(args.Pack, << "-pack" >>)
    \o If(args.Race, << "-race" >>)
    \o If(args.Shared, << "-shared" >>)
    \o If(args.SmallFrames, << "-smallframes" >>)
    \o If(args.CompilingStandardLibrary, << "-std" >>)
    \o If(args.SymABIsFile # "", << "-symabis", args.SymABIsFile >>)
    \o args.Files

\* Link's command line with the input files appended first.
LinkCmdArgs_FilesFirst(tools, args) ==
    tools.LinkerArgs
    \o args.Files
    \o If(args.EntrySymbolName # "", << "-E", args.EntrySymbolName >>)
    \o If(args.OutputFile # "", << "-o", args.OutputFile >>)
    \o If(args.Race, << "-race" >>)

\* The cmdArgs Link builds.
LinkCmdArgs(tools, args) ==
    tools.LinkerArgs
    \o If(args.EntrySymbolName # "", << "-E", args.EntrySymbolName >>)
    \o If(args.HeaderType # "", << "-H", args.HeaderType >>)
    \o If(args.ELFDynamicLinker # "", << "-I", args.ELFDynamicLinker >>)
    \o Each("-L", args.LibraryPaths)
    \o Each("-X", args.StringDefines)
    \o If(args.BuildID # "", << "-buildid", args.BuildID >>)
    \o If(args.BuildMode # "", << "-buildmode", args.BuildMode >>)
    \o If(args.ExternalTar # "", << "-extar", args.ExternalTar >>)
    \o If(args.ExternalLinker # "", << "-extld", args.ExternalLinker >>)
    \o If(args.ExternalLinkerFlags # "", << "-extldflags", args.ExternalLinkerFlags >>)
    \o If(args.IgnoreVersionMismatch, << "-f" >>)
    \o If(args.DisableGoPackageDataChecks, << "-g" >>)
    \o If(args.HaltOnError, << "-h" >>)
    \o If(args.ImportConfigFile # "", << "-importcfg", args.ImportConfigFile >>)
    \o If(args.InstallSuffix # "", << "-installsuffix", args.InstallSuffix >>)
    \o If(args.FieldTrackingSymbol # "", << "-k", args.FieldTrackingSymbol >>)
    \o If(args.LibGCC # "", << "-libgcc", args.LibGCC >>)
    \o If(args.LinkMode # "", << "-linkmode", args.LinkMode >>)
    \o If(args.LinkShared, << "-linkshared" >>)
    \o If(args.MSan, << "-msan" >>)
    \o If(args.OutputFile # "", << "-o", args.OutputFile >>)
    \o If(args.PluginPath # "", << "-pluginpath", args.PluginPath >>)
    \o If(args.Race, << "-race" >>)
    \o If(args.TempDir # "", << "-tmpdir", args.TempDir >>)
    \o If(args.RejectUnsafePackages, << "-u" >>)
    \o args.Files

\* The PackOp constants AppendNew, Print, Append, List, Extract (iota 1..5).
OpAppendNew == 1
OpPrint == 2
OpAppend == 3
OpList == 4
OpExtract == 5

\* Pack's switch with the Append case passing the AppendNew token.
PackOpToken_AppendAsNew(op) ==
    CASE op = OpAppendNew -> "c"
      [] op = OpPrint -> "p"
      [] op = OpAppend -> "c"
      [] op = OpList -> "t"
      [] op = OpExtract -> "x"
      [] OTHER -> ""

\* The switch of Pack: the token of a defined operation; "" stands for the
\* default case, which returns the error.
PackOpToken(op) ==
    CASE op = OpAppendNew -> "c"
      [] op = OpPrint -> "p"
      [] op = OpAppend -> "r"
      [] op = OpList -> "t"
      [] op = OpExtract -> "x"
      [] OTHER -> ""

\* Whether Pack's switch reaches a case other than default.
PackOpKnown(op) == op \in {OpAppendNew, OpPrint, OpAppend, OpList, OpExtract}

\* The cmdArgs Pack builds for a defined operation.
PackCmdArgs(tools, args) ==
    tools.PackerArgs \o << PackOpToken(args.Op) >> \o << args.ObjectFile >> \o args.Names

\* BuildID's command line with -w after the object file.
BuildIDCmdArgs_WriteLast(tools, args) ==
    tools.BuildIDerArgs \o << args.ObjectFile >> \o If(args.Write, << "-w" >>)

\* The cmdArgs BuildID builds.
BuildIDCmdArgs(tools, args) ==
    tools.BuildIDerArgs \o If(args.Write, << "-w" >>) \o << args.ObjectFile >>

\* What an enabled DebugLog prints before the process is started.
DebugLines(path, cmdArgs, dir) ==
    If(DebugLog, << "cd " \o dir \o "\n", path \o " " \o Join(cmdArgs, " ") \o "\n" >>)

---------------------------------------------------------------------------
(* The Args records. *)

AssembleZero ==
    [ Context |-> ZeroContext, WorkingDirectory |-> "", Files |-> << >>,
      TrimPath |-> "", OutputFile |-> "", IncludeDirs |-> << >>, Defines |-> << >>,
      GenSymABIs |-> FALSE, Shared |-> FALSE, DynamicLink |-> FALSE ]

CompileZero ==
    [ Context |-> ZeroContext, WorkingDirectory |-> "", Files |-> << >>,
      TrimPath |-> "", OutputFile |-> "", BuildID |-> "",
      DisableBoundsChecking |-> FALSE, CompilingRuntimeLibrary |-> FALSE,
      DisableOptimizations |-> FALSE, RelativeImportPath |-> "",
      IncludeDirs |-> << >>, Concurrency |-> 0, AsmHeaderFile |-> "",
      Complete |-> FALSE, DynamicLink |-> FALSE, GoVersion |-> "",
      HaltOnError |-> FALSE, ImportConfigFile |-> "", ImportMap |-> << >>,
      InstallSuffix |-> "", DisableInlining |-> FALSE, LinkObjectOutputFile |-> "",
      MSan |-> FALSE, NoLocalImports |-> FALSE, PackageImportPath |-> "",
      Pack |-> FALSE, Race |-> FALSE, Shared |-> FALSE, SmallFrames |-> FALSE,
      CompilingStandardLibrary |-> FALSE, SymABIsFile |-> "" ]

LinkZero ==
    [ Context |-> ZeroContext, WorkingDirectory |-> "", Files |-> << >>,
      EntrySymbolName |-> "", HeaderType |-> "", ELFDynamicLinker |-> "",
      LibraryPaths |-> << >>, StringDefines |-> << >>, BuildID |-> "",
      BuildMode |-> "", ExternalTar |-> "", ExternalLinker |-> "",
      ExternalLinkerFlags |-> "", IgnoreVersionMismatch |-> FALSE,
      DisableGoPackageDataChecks |-> FALSE, HaltOnError |-> FALSE,
      ImportConfigFile |-> "", InstallSuffix |-> "", FieldTrackingSymbol |-> "",
      LibGCC |-> "", LinkMode |-> "", LinkShared |-> FALSE, MSan |-> FALSE,
      OutputFile |-> "", PluginPath |-> "", Race |-> FALSE, TempDir |-> "",
      RejectUnsafePackages |-> FALSE ]

PackZero ==
    [ Context |-> ZeroContext, WorkingDirectory |-> "", Op |-> 0, ObjectFile |-> "",
      Names |-> << >> ]

BuildIDZero ==
    [ Context |-> ZeroContext, WorkingDirectory |-> "", ObjectFile |-> "",
      Write |-> FALSE ]

ZeroArgs(op) ==
    CASE op = "Assemble" -> AssembleZero
      [] op = "Compile" -> CompileZero
      [] op = "Link" -> LinkZero
      [] op = "Pack" -> PackZero
      [] op = "BuildID" -> BuildIDZero

\* The optional fields of AssembleArgs, CompileArgs and LinkArgs by type.
StrFields(op) ==
    CASE op = "Assemble" -> {"TrimPath", "OutputFile"}
      [] op = "Compile" ->
            {"TrimPath", "OutputFile", "BuildID", "RelativeImportPath", "AsmHeaderFile",
             "GoVersion", "ImportConfigFile", "InstallSuffix", "LinkObjectOutputFile",
             "PackageImportPath", "SymABIsFile"}
      [] op = "Link" ->
            {"EntrySymbolName", "HeaderType", "ELFDynamicLinker", "BuildID", "BuildMode",
             "ExternalTar", "ExternalLinker", "ExternalLinkerFlags", "ImportConfigFile",
             "InstallSuffix", "FieldTrackingSymbol", "LibGCC", "LinkMode", "OutputFile",
             "PluginPath", "TempDir"}

BoolFields(op) ==
    CASE op = "Assemble" -> {"GenSymABIs", "Shared", "DynamicLink"}
      [] op = "Compile" ->
            {"DisableBoundsChecking", "CompilingRuntimeLibrary", "DisableOptimizations",
             "Complete", "DynamicLink", "HaltOnError", "DisableInlining", "MSan",
             "NoLocalImports", "Pack", "Race", "Shared", "SmallFrames",
             "CompilingStandardLibrary"}
      [] op = "Link" ->
            {"IgnoreVersionMismatch", "DisableGoPackageDataChecks", "HaltOnError",
             "LinkShared", "MSan", "Race", "RejectUnsafePackages"}

ListFields(op) ==
    CASE op = "Assemble" -> {"IncludeDirs", "Defines"}
      [] op = "Compile" -> {"IncludeDirs", "ImportMap"}
      [] op = "Link" -> {"LibraryPaths", "StringDefines"}

IntFields(op) ==
    CASE op = "Compile" -> {"Concurrency"}
      [] OTHER -> {}

OptFields(op) == StrFields(op) \cup BoolFields(op) \cup ListFields(op) \cup IntFields(op)

(* The inputs the calls are made with. *)

StrVals == {"tp", "of"}

ListVals == { << "A" >>, << "A", "B" >>, << "B", "A" >> }

IntVals == {5, 12}

Values(op, f) ==
    IF f \in StrFields(op) THEN StrVals
    ELSE IF f \in BoolFields(op) THEN {TRUE}
    ELSE IF f \in ListFields(op) THEN ListVals
    ELSE IntVals

\* The subsets of F with at most k elements.
RECURSIVE SubsetsUpTo(_, _)
SubsetsUpTo(F, k) ==
    IF k = 0 THEN {{}}
    ELSE LET prev == SubsetsUpTo(F, k - 1)
         IN  prev \cup {s \cup {f} : s \in prev, f \in F}

\* The records that are rec with every field of S set to one of its values.
RECURSIVE Fill(_, _, _)
Fill(op, rec, S) ==
    IF S = {} THEN {rec}
    ELSE LET f == CHOOSE x \in S : TRUE
         IN  UNION {Fill(op, [rec EXCEPT ![f] = v], S \ {f}) : v \in Values(op, f)}

\* Build context, working directory and input files of a call.
Situations ==
    { [Context |-> TestContext, WorkingDirectory |-> "", Files |-> << >>],
      [Context |-> CrossContext, WorkingDirectory |-> "wd", Files |-> << "a" >>],
      [Context |-> TestContext, WorkingDirectory |-> "wd", Files |-> << "b", "a", "c" >>] }

ArgsOf(op) ==
    { [r EXCEPT !.Context = p.Context, !.WorkingDirectory = p.WorkingDirectory,
                !.Files = p.Files] :
        r \in UNION {Fill(op, ZeroArgs(op), S) : S \in SubsetsUpTo(OptFields(op), MaxPopulated)},
        p \in Situations }

PackOps == {-1, 0, OpAppendNew, OpPrint, OpAppend, OpList, OpExtract, 6, 12}

PackArgsSet ==
    [ Context : {TestContext}, WorkingDirectory : {"", "wd"}, Op : PackOps,
      ObjectFile : {"", "obj"}, Names : {<< >>} \cup ListVals ]

BuildIDArgsSet ==
    [ Context : {ZeroContext, TestContext}, WorkingDirectory : {"", "wd"},
      ObjectFile : {"", "obj"}, Write : BOOLEAN ]

\* What a tool may write to its standard output.
ToolOutputs == {"", " abc/def \n"}

\* The inherited environments of SpecEnv.
EnvEntries ==
    { "PATH=/bin", "GO=1", "GOOS=plan9", "GOOSE=1", "GOARCH=arm", "GOARCH64=1",
      "GOROOT=/go", "GOPATH=/gp", "GOPATHS=x", "CGO_ENABLED=0", "CGO_ENABLED_X=1" }

Environs == UNION {[1 .. n -> EnvEntries] : n \in 0 .. MaxEnv}

---------------------------------------------------------------------------
(* The tool calls. *)

NoArgs == [Context |-> ZeroContext]

\* No call in progress.
NoCall ==
    [ op |-> "none", st |-> "idle", in |-> NoArgs,
      path |-> "", argv |-> << >>, env |-> << >>, dir |-> "", nproc |-> 0,
      printed |-> << >>, out |-> "", exit |-> Nil, stdout |-> "", s |-> "",
      ctx |-> ZeroContext, copied |-> FALSE, err |-> Nil ]

\* No BuildCtx call has been made.
NoBuildCtx == [calls |-> 0, spawned |-> 0]

\* exec.Command(path, cmdArgs...) with cmd.Env and cmd.Dir set, started by
\* cmd.Run() after the DebugLog lines are printed.
Exec(op, args, path, cmdArgs) ==
    [ NoCall EXCEPT !.op = op, !.st = "running", !.in = args,
                    !.path = path, !.argv = cmdArgs, !.env = env(args.Context),
                    !.dir = args.WorkingDirectory, !.nproc = 1,
                    !.printed = DebugLines(path, cmdArgs, args.WorkingDirectory) ]

\* Assemble appending its flags to ct.AssemblerArgs itself, not to a copy.
Assemble_AppendsToConfig(args) ==
    /\ call.st = "idle"
    /\ call' = Exec("Assemble", args, ct.Assembler, AssembleCmdArgs(ct, args))
    /\ ct' = [ct EXCEPT !.AssemblerArgs = AssembleCmdArgs(ct, args)]
    /\ UNCHANGED <<DebugLog, environ, versionVars, ctxCount>>

Assemble(args) ==
    /\ call.st = "idle"
    /\ call' = Exec("Assemble", args, ct.Assembler, AssembleCmdArgs(ct, args))
    /\ UNCHANGED <<ct, DebugLog, environ, versionVars, ctxCount>>

Compile(args) ==
    /\ call.st = "idle"
    /\ call' = Exec("Compile", args, ct.Compiler, CompileCmdArgs(ct, args))
    /\ UNCHANGED <<ct, DebugLog, environ, versionVars, ctxCount>>

Link(args) ==
    /\ call.st = "idle"
    /\ call' = Exec("Link", args, ct.Linker, LinkCmdArgs(ct, args))
    /\ UNCHANGED <<ct, DebugLog, environ, versionVars, ctxCount>>

\* Pack whose default case falls through to run the packer.
Pack_NoDefault(args) ==
    /\ call.st = "idle"
    /\ call' = Exec("Pack", args, ct.Packer, PackCmdArgs(ct, args))
    /\ UNCHANGED <<ct, DebugLog, environ, versionVars, ctxCount>>

Pack(args) ==
    /\ call.st = "idle"
    /\ call' = IF PackOpKnown(args.Op)
               THEN Exec("Pack", args, ct.Packer, PackCmdArgs(ct, args))
               ELSE [ NoCall EXCEPT !.op = "Pack", !.st = "returned", !.in = args,
                          !.err = "unknown pack operation " \o Itoa(args.Op) ]
    /\ UNCHANGED <<ct, DebugLog, environ, versionVars, ctxCount>>

\* BuildID that serializes with Version on ct.mutex.
BuildID_UnderVersionLock(args) ==
    /\ call.st = "idle"
    /\ ct.mutex = NoOne
    /\ call' = Exec("BuildID", args, ct.BuildIDer, BuildIDCmdArgs(ct, args))
    /\ UNCHANGED <<ct, DebugLog, environ, versionVars, ctxCount>>

BuildID(args) ==
    /\ call.st = "idle"
    /\ call' = Exec("BuildID", args, ct.BuildIDer, BuildIDCmdArgs(ct, args))
    /\ UNCHANGED <<ct, DebugLog, environ, versionVars, ctxCount>>

\* The process of Assemble, Compile, Link or Pack ends: what it wrote went to
\* args.Stdout, and the call returns cmd.Run()'s error.
ToolExit(out, err) ==
    /\ call.st = "running"
    /\ call.op \in {"Assemble", "Compile", "Link", "Pack"}
    /\ call' = [ NoCall EXCEPT !.op = call.op, !.st = "returned", !.nproc = 1,
                               !.out = out, !.exit = err, !.stdout = out, !.err = err ]
    /\ UNCHANGED <<ct, DebugLog, environ, versionVars, ctxCount>>

\* BuildID returning the trimmed output whether or not the tool failed.
BuildIDExit_KeepsOutput(out, err) ==
    /\ call.st = "running"
    /\ call.op = "BuildID"
    /\ call' = [ NoCall EXCEPT !.op = call.op, !.st = "returned", !.nproc = 1,
                               !.out = out, !.exit = err, !.s = TrimSpace(out),
                               !.err = err ]
    /\ UNCHANGED <<ct, DebugLog, environ, versionVars, ctxCount>>

\* The process of BuildID ends: its output was captured, and the call returns
\* "", err or the trimmed output.
BuildIDExit(out, err) ==
    /\ call.st = "running"
    /\ call.op = "BuildID"
    /\ call' = [ NoCall EXCEPT !.op = call.op, !.st = "returned", !.nproc = 1,
                               !.out = out, !.exit = err,
                               !.s = IF err # Nil THEN "" ELSE TrimSpace(out),
                               !.err = err ]
    /\ UNCHANGED <<ct, DebugLog, environ, versionVars, ctxCount>>

\* gb.Default, the context BuildCtx starts from.
Default ==
    [GOARCH |-> "amd64", GOOS |-> "darwin", GOROOT |-> "/usr/local/go", GOPATH |-> "/root/go",
     CgoEnabled |-> TRUE]

\* The characters of the class [a-zA-Z0-9_] of envRegex.
WordChars == "abcdefghijklmnopqrstuvwxyzABCDEFGHIJKLMNOPQRSTUVWXYZ0123456789_"

IsWordChar(ch) == \E i \in 1..Len(WordChars) : SubSeq(WordChars, i, i) = ch

\* The character at position i, "" beyond the end.
At(line, i) == IF i \in 1..Len(line) THEN SubSeq(line, i, i) ELSE ""

\* The last position of the longest run of word characters that starts at i.
RECURSIVE RunEnd(_, _)
RunEnd(line, i) ==
    IF i < Len(line) /\ IsWordChar(At(line, i + 1)) THEN RunEnd(line, i + 1) ELSE i

\* The positions of line at which ([a-zA-Z0-9_]+)="(.*)" matches: a run of word
\* characters up to =" and a closing quote somewhere after it.
MatchStarts(line) ==
    {i \in 1..Len(line) :
        /\ IsWordChar(At(line, i))
        /\ LET e == RunEnd(line, i)
           IN  /\ At(line, e + 1) = "="
               /\ At(line, e + 2) = "\""
               /\ \E q \in (e + 3)..Len(line) : At(line, q) = "\""}

Min(S) == CHOOSE x \in S : \A y \in S : x <= y
Max(S) == CHOOSE x \in S : \A y \in S : x >= y

\* envRegex.FindStringSubmatch: << >> for nil, else the leftmost match, its
\* key and its value, the value running to the last quote of the line.
FindStringSubmatch(line) ==
    IF MatchStarts(line) = {} THEN << >>
    ELSE LET i == Min(MatchStarts(line))
             e == RunEnd(line, i)
             q == Max({k \in (e + 3)..Len(line) : At(line, k) = "\""})
         IN  << SubSeq(line, i, q), SubSeq(line, i, e), SubSeq(line, e + 3, q - 1) >>

\* dropCR of bufio.ScanLines.
DropCR(line) ==
    IF Len(line) > 0 /\ At(line, Len(line)) = "\r"
    THEN SubSeq(line, 1, Len(line) - 1) ELSE line

\* The lines bufio.Scanner yields for out: split at "\n", a final line without
\* "\n" included when it is not empty.  Every line of the bounded outputs is
\* shorter than the scanner's token limit, so scanner.Err() is nil.
RECURSIVE ScanFrom(_, _, _)
ScanFrom(out, from, i) ==
    IF i > Len(out)
    THEN IF from > Len(out) THEN << >> ELSE << DropCR(SubSeq(out, from, Len(out))) >>
    ELSE IF At(out, i) = "\n"
         THEN << DropCR(SubSeq(out, from, i - 1)) >> \o ScanFrom(out, i + 1, i + 1)
         ELSE ScanFrom(out, from, i + 1)

ScanLines(out) == ScanFrom(out, 1, 1)

\* One pass of BuildCtx's scanner loop.
ParseLine(ctx, line) ==
    LET values == FindStringSubmatch(line)
    IN  IF values = << >> THEN ctx
        ELSE CASE values[2] = "GOOS" -> [ctx EXCEPT !.GOOS = values[3]]
               [] values[2] = "GOARCH" -> [ctx EXCEPT !.GOARCH = values[3]]
               [] values[2] = "GOPATH" -> [ctx EXCEPT !.GOPATH = values[3]]
               [] values[2] = "GOROOT" -> [ctx EXCEPT !.GOROOT = values[3]]
               [] OTHER -> ctx

\* BuildCtx's scanner loop.
RECURSIVE ParseEnv(_, _)
ParseEnv(ctx, lines) ==
    IF lines = << >> THEN ctx
    ELSE ParseEnv(ParseLine(ctx, Head(lines)), Tail(lines))

\* BuildCtx that answers from the memoized version when there is one.
BuildCtx_Memoized ==
    /\ call.st = "idle"
    /\ ctxCount.calls < MaxCalls
    /\ IF ct.version # ""
       THEN /\ call' = [ NoCall EXCEPT !.op = "BuildCtx", !.st = "returned", !.ctx = Default ]
            /\ ctxCount' = [ctxCount EXCEPT !.calls = @ + 1]
       ELSE /\ call' = [ NoCall EXCEPT !.op = "BuildCtx", !.st = "running", !.path = ct.Go,
                                       !.argv = ct.GoArgs \o << "env" >>, !.env = environ,
                                       !.nproc = 1 ]
            /\ ctxCount' = [calls |-> ctxCount.calls + 1, spawned |-> ctxCount.spawned + 1]
    /\ UNCHANGED <<ct, DebugLog, environ, versionVars>>

\* BuildCtx starts `go env`: no cmd.Env and no cmd.Dir are set, nothing is
\* printed for DebugLog.
BuildCtx ==
    /\ call.st = "idle"
    /\ ctxCount.calls < MaxCalls
    /\ call' = [ NoCall EXCEPT !.op = "BuildCtx", !.st = "running", !.path = ct.Go,
                               !.argv = ct.GoArgs \o << "env" >>, !.env = environ,
                               !.nproc = 1 ]
    /\ ctxCount' = [calls |-> ctxCount.calls + 1, spawned |-> ctxCount.spawned + 1]
    /\ UNCHANGED <<ct, DebugLog, environ, versionVars>>

\* `go env` ends: on an error its stderr is copied and gb.Default is returned
\* with the error, otherwise the output is scanned line by line.
BuildCtxExit(out, err) ==
    /\ call.st = "running"
    /\ call.op = "BuildCtx"
    /\ call' = [ NoCall EXCEPT !.op = call.op, !.st = "returned", !.nproc = 1,
                               !.out = out, !.exit = err,
                               !.ctx = IF err # Nil THEN Default
                                       ELSE ParseEnv(Default, ScanLines(out)),
                               !.copied = (err # Nil),
                               !.err = err ]
    /\ UNCHANGED <<ct, DebugLog, environ, versionVars, ctxCount>>

\* The caller has the result; the instance is ready for the next call.
Return ==
    /\ call.st = "returned"
    /\ call' = NoCall
    /\ UNCHANGED <<ct, DebugLog, environ, versionVars, ctxCount>>

---------------------------------------------------------------------------
(* Specifications. *)

VersionIdle ==
    /\ pc = [c \in Callers |-> "idle"]
    /\ started = [c \in Callers |-> 0]
    /\ proc = [c \in Callers |-> NoProc]
    /\ ret = [c \in Callers |-> NoRet]
    /\ log = << >>
    /\ spawned = 0
    /\ stderrCopies = 0

\* Concurrent Version callers on one instance.
Init ==
    /\ ct \in Configs
    /\ DebugLog = FALSE
    /\ environ = BaseEnviron
    /\ VersionIdle
    /\ call = NoCall
    /\ ctxCount = NoBuildCtx

Next ==
    \E c \in Callers :
        \/ VersionCall(c)
        \/ VersionLock(c)
        \/ VersionCached(c)
        \/ VersionSpawn(c)
        \/ \E out \in VersionOutputs : VersionRunOK(c, out)
        \/ \E err \in RunErrors : VersionRunFail(c, err)
        \/ VersionUnlock(c)

Spec == Init /\ [][Next]_vars

\* The tool calls, one after the other, over the bounded Args records.
InitTools ==
    /\ ct \in Configs
    /\ DebugLog \in BOOLEAN
    /\ environ = BaseEnviron
    /\ VersionIdle
    /\ call = NoCall
    /\ ctxCount = NoBuildCtx

\* A call starts only when none is in progress: the inputs are drawn then.
Idle == call.st = "idle"

NextTools ==
    \/ Idle /\ \E a \in ArgsOf("Assemble") : Assemble(a)
    \/ Idle /\ \E a \in ArgsOf("Compile") : Compile(a)
    \/ Idle /\ \E a \in ArgsOf("Link") : Link(a)
    \/ Idle /\ \E a \in PackArgsSet : Pack(a)
    \/ Idle /\ \E a \in BuildIDArgsSet : BuildID(a)
    \/ \E out \in ToolOutputs, err \in {Nil} \cup RunErrors : ToolExit(out, err)
    \/ \E out \in ToolOutputs, err \in {Nil} \cup RunErrors : BuildIDExit(out, err)
    \/ Return

SpecTools == InitTools /\ [][NextTools]_vars

\* The environment overlay over the bounded inherited environments.
InitEnv ==
    /\ ct = TestTools
    /\ DebugLog = FALSE
    /\ environ \in Environs
    /\ VersionIdle
    /\ call = NoCall
    /\ ctxCount = NoBuildCtx

NextEnv ==
    \/ \E ctx \in Contexts : Assemble([AssembleZero EXCEPT !.Context = ctx])
    \/ ToolExit("", Nil)
    \/ Return

SpecEnv == InitEnv /\ [][NextEnv]_vars

\* Longest `go env` output, in lines.
MaxLines == 2

\* Lines `go env` may print: the four keys, a key printed twice, other keys,
\* lines that are not KEY="VALUE", and lines with text around KEY="VALUE".
EnvLines ==
    { "GOARCH=\"arm64\"", "GOOS=\"linux\"", "GOOS=\"plan9\"", "GOPATH=\"/home/go\"",
      "GOROOT=\"/usr/go\"", "GOHOSTOS=\"linux\"", "CC=\"gcc\"", "GOPATH=\"\"",
      "GOOS=windows", "GOARCH=\"386", "", "GOARCH=\"arm\"\r",
      "export GOROOT=\"/opt/go\"", "GOOS=\"aix\" # \"ppc64\"" }

\* The outputs of up to n lines, every line ended by "\n".
RECURSIVE EnvOutputsUpTo(_)
EnvOutputsUpTo(n) ==
    IF n = 0 THEN {""}
    ELSE LET shorter == EnvOutputsUpTo(n - 1)
         IN  shorter \cup {o \o l \o "\n" : o \in shorter, l \in EnvLines}

EnvOutputs == EnvOutputsUpTo(MaxLines) \cup {"GOOS=\"linux\"\nGOARCH=\"arm64\""}

\* BuildCtx, one call at a time, over the bounded outputs of `go env`.
InitCtx ==
    /\ ct \in Configs
    /\ DebugLog \in BOOLEAN
    /\ environ = BaseEnviron
    /\ VersionIdle
    /\ call = NoCall
    /\ ctxCount = NoBuildCtx

NextCtx ==
    \/ BuildCtx
    \/ \E out \in EnvOutputs : BuildCtxExit(out, Nil)
    \/ \E err \in RunErrors : BuildCtxExit("", err)
    \/ Return

SpecCtx == InitCtx /\ [][NextCtx]_vars

\* The tool calls of SpecAll: one call of each operation with fields set,
\* and Pack also with an operation it does not know.
AssembleCall == [AssembleZero EXCEPT !.Context = TestContext, !.IncludeDirs = << "A" >>,
                                     !.Files = << "a" >>]
CompileCall == [CompileZero EXCEPT !.Context = TestContext, !.OutputFile = "of",
                                   !.Files = << "a" >>]
LinkCall == [LinkZero EXCEPT !.Context = CrossContext, !.Race = TRUE, !.Files = << "a" >>]
PackCalls == {[PackZero EXCEPT !.Context = TestContext, !.Op = op, !.ObjectFile = "of"] :
                 op \in {OpAppend, 0}}
BuildIDCall == [BuildIDZero EXCEPT !.Context = TestContext, !.Write = TRUE, !.ObjectFile = "of"]

\* Number of Version calls, and of BuildCtx calls, made in SpecAll and SpecFair.
MaxMixedCalls == 2

\* Version callers and, next to them, a goroutine that makes tool calls and
\* BuildCtx calls on the same instance.
InitAll ==
    /\ ct = TestTools
    /\ DebugLog = FALSE
    /\ environ = BaseEnviron
    /\ VersionIdle
    /\ call = NoCall
    /\ ctxCount = NoBuildCtx

NextAll ==
    \/ \E c \in Callers :
        \/ CallsMade < MaxMixedCalls /\ VersionCall(c)
        \/ VersionLock(c)
        \/ VersionCached(c)
        \/ VersionSpawn(c)
        \/ VersionRunOK(c, " go1.15")
        \/ VersionRunFail(c, "exit status 1")
        \/ VersionUnlock(c)
    \/ Assemble(AssembleCall)
    \/ Compile(CompileCall)
    \/ Link(LinkCall)
    \/ \E a \in PackCalls : Pack(a)
    \/ BuildID(BuildIDCall)
    \/ ctxCount.calls < MaxMixedCalls /\ BuildCtx
    \/ \E err \in {Nil, "exit status 1"} : ToolExit("", err)
    \/ \E err \in {Nil, "exit status 1"} : BuildIDExit(" abc/def \n", err)
    \/ \E out \in {"GOOS=\"linux\"\n", "GOROOT=\"/usr/go\"\n"} : BuildCtxExit(out, Nil)
    \/ BuildCtxExit("", "exit status 1")
    \/ Return

SpecAll == InitAll /\ [][NextAll]_vars

\* The subprocess of a caller ends, one way or the other.
VersionRunEnds(c) ==
    \/ \E out \in VersionOutputs : VersionRunOK(c, out)
    \/ \E err \in RunErrors : VersionRunFail(c, err)

\* The Version callers making up to MaxMixedCalls calls.
NextFair ==
    \E c \in Callers :
        \/ CallsMade < MaxMixedCalls /\ VersionCall(c)
        \/ VersionLock(c)
        \/ VersionCached(c)
        \/ VersionSpawn(c)
        \/ VersionRunEnds(c)
        \/ VersionUnlock(c)

\* The Version callers with a scheduler that lets every goroutine run,
\* subprocesses that end, and a mutex that is granted to every goroutine that
\* keeps asking for it.
SpecFair ==
    /\ Init
    /\ [][NextFair]_vars
    /\ \A c \in Callers :
        /\ SF_vars(VersionLock(c))
        /\ WF_vars(VersionCached(c))
        /\ WF_vars(VersionSpawn(c))
        /\ WF_vars(VersionRunEnds(c))
        /\ WF_vars(VersionUnlock(c))

---------------------------------------------------------------------------
(* Claims about Version (specification Spec). *)

\* The results Version has produced: those returned, and those of callers that
\* hold their return value and have not yet released the mutex.
Pending == {c \in Callers : pc[c] = "unlock"}

NumEmptyResults ==
    Cardinality({i \in DOMAIN log : log[i].s = ""})
    + Cardinality({c \in Pending : ret[c].s = ""})

NonEmptyResults ==
    {log[i].s : i \in {k \in DOMAIN log : log[k].s # ""}}
    \cup {ret[c].s : c \in {d \in Pending : ret[d].s # ""}}

InFlight == {c \in Callers : pc[c] = "run"}

\* s is out with its leading and trailing white space cut off, said without
\* TrimSpace: s is a slice of out, what is cut is white space, and s neither
\* starts nor ends with white space.
IsTrimOf(s, out) ==
    \E i \in 1 .. Len(out) + 1 : \E j \in 0 .. Len(out) :
        /\ j >= i - 1
        /\ s = SubSeq(out, i, j)
        /\ \A k \in 1 .. Len(out) : (k < i \/ k > j) => IsSpace(SubSeq(out, k, k))
        /\ Len(s) > 0 => ~IsSpace(SubSeq(s, 1, 1)) /\ ~IsSpace(SubSeq(s, Len(s), Len(s)))

\* C1 as stated: whatever the callers do, exactly one version subprocess is
\* ever spawned and every caller that returned got the identical string.
C1_OneSpawnIdenticalResult ==
    /\ spawned <= 1
    /\ Len(log) > 0 => spawned = 1
    /\ \A i, j \in DOMAIN log : log[i].s = log[j].s

\* C1, amended: a version subprocess is spawned by exactly the calls that find
\* the cache empty: one per call that produced the empty string (a failed run,
\* or a run that printed only white space), one for the first call that
\* produced a non-empty string, and the one in flight; all callers that receive
\* a non-empty string receive the identical string; and when the first call
\* to return succeeded with a non-empty string, one subprocess was spawned in
\* total.
C1_SpawnPerEmptyCache ==
    /\ spawned = NumEmptyResults
                 + (IF NonEmptyResults # {} THEN 1 ELSE 0)
                 + Cardinality(InFlight)
    /\ Cardinality(NonEmptyResults) <= 1
    /\ (Len(log) > 0 /\ log[1].s # "") =>
           /\ spawned = 1
           /\ \A i \in DOMAIN log : log[i].s = log[1].s

\* Two callers were inside Version at the same time, one subprocess ran and
\* both returned its non-empty output.
C1_Witness ==
    /\ Len(log) >= 2
    /\ log[1].caller # log[2].caller
    /\ log[2].started = 0
    /\ log[1].s # ""
    /\ log[2].s = log[1].s
    /\ spawned = 1

\* C2 as stated: once a Version call has returned with a nil error, every
\* Version call made after that return gets the same string and runs no
\* subprocess, whatever the trimmed output was.
C2_CachedAfterSuccess ==
    \A i, j \in DOMAIN log :
        (i < j /\ log[i].err = Nil /\ log[j].started >= i) =>
            /\ log[j].s = log[i].s
            /\ ~log[j].ran

\* C3: at most one version subprocess is in flight, and a string returned with
\* a nil error is the memoized value (while the caller still holds the mutex)
\* and is the trimmed output of a run that exited successfully.
C3_OneInFlightNoTornRead ==
    /\ Cardinality(InFlight) <= 1
    /\ \A c \in Pending : ret[c].err = Nil =>
           /\ ret[c].s = ct.version
           /\ \/ \E d \in Pending :
                     ret[d].ran /\ ret[d].err = Nil /\ IsTrimOf(ret[c].s, ret[d].out)
              \/ \E i \in DOMAIN log :
                     log[i].ran /\ log[i].err = Nil /\ IsTrimOf(ret[c].s, log[i].out)
    /\ \A j \in DOMAIN log : log[j].err = Nil =>
           \E i \in 1 .. j : log[i].ran /\ log[i].err = Nil /\ IsTrimOf(log[j].s, log[i].out)

\* A caller's subprocess has just succeeded: it holds the mutex and the
\* trimmed, non-empty output it is about to return, while another caller
\* waits for the mutex.
C3_Witness ==
    \E c, d \in Callers :
        /\ pc[c] = "unlock" /\ pc[d] = "lock"
        /\ ct.mutex = c
        /\ ret[c].ran /\ ret[c].err = Nil
        /\ ret[c].s # "" /\ ret[c].out # ret[c].s

\* C4: a Version call whose subprocess failed produced "" and the error and
\* left the version unset; the next call to pass through Version ran a new
\* subprocess and, when that succeeded, returned its trimmed output, which is
\* then the memoized value.
C4_FailureDoesNotPoison ==
    /\ \A c \in Pending : ret[c].err # Nil => ret[c].s = "" /\ ct.version = ""
    /\ \A i \in DOMAIN log : log[i].err # Nil =>
           /\ log[i].s = ""
           /\ i + 1 \in DOMAIN log =>
                  /\ log[i + 1].ran
                  /\ log[i + 1].err = Nil => IsTrimOf(log[i + 1].s, log[i + 1].out)
           /\ (i = Len(log) /\ Pending = {}) => ct.version = ""
           /\ \A c \in Pending : i = Len(log) =>
                  /\ ret[c].ran
                  /\ ret[c].err = Nil =>
                         IsTrimOf(ret[c].s, ret[c].out) /\ ct.version = ret[c].s

\* A failed call was followed by a call that ran a subprocess, succeeded and
\* populated the cache.
C4_Witness ==
    \E i \in DOMAIN log :
        /\ log[i].err # Nil
        /\ i + 1 \in DOMAIN log
        /\ log[i + 1].ran /\ log[i + 1].err = Nil /\ log[i + 1].s # ""
        /\ log[i + 1].started >= i
        /\ ct.version = log[i + 1].s

---------------------------------------------------------------------------
(* Claims about the environment overlay (specification SpecEnv). *)

\* The variable an environment entry NAME=value sets.
EnvName(v) ==
    LET eqs == {i \in 1 .. Len(v) : SubSeq(v, i, i) = "="}
    IN  IF eqs = {} THEN v
        ELSE SubSeq(v, 1, (CHOOSE i \in eqs : \A k \in eqs : i <= k) - 1)

BuildVars == {"GOARCH", "GOOS", "GOROOT", "GOPATH", "CGO_ENABLED"}

NotBuildVar(v) == EnvName(v) \notin BuildVars

\* a can be had from b by deleting elements.
RECURSIVE IsSubseq(_, _)
IsSubseq(a, b) ==
    IF Len(a) = 0 THEN TRUE
    ELSE IF Len(b) = 0 THEN FALSE
    ELSE IF Head(a) = Head(b) THEN IsSubseq(Tail(a), Tail(b))
    ELSE IsSubseq(a, Tail(b))

Running == call.st = "running"

\* C5 as stated: the environment passed to a tool keeps, unchanged and in
\* their order, all inherited entries whose variable name is not exactly one
\* of GOARCH, GOOS, GOROOT, GOPATH, CGO_ENABLED.
C5_OtherEntriesPassThrough ==
    Running => IsSubseq(SelectSeq(environ, NotBuildVar), call.env)

\* C6: the environment passed to a tool has exactly one entry for each of the
\* five build variables; they are its last five entries, carry the call's
\* Build Context (CGO_ENABLED=1 or 0), and what precedes them is inherited.
C6_OverlayCarriesContext ==
    Running =>
        LET e == call.env
            n == Len(call.env)
            ctx == call.in.Context
        IN  /\ n >= 5
            /\ \A V \in BuildVars : Cardinality({i \in 1 .. n : EnvName(e[i]) = V}) = 1
            /\ e[n - 4] = "GOARCH=" \o ctx.GOARCH
            /\ e[n - 3] = "GOOS=" \o ctx.GOOS
            /\ e[n - 2] = "GOROOT=" \o ctx.GOROOT
            /\ e[n - 1] = "GOPATH=" \o ctx.GOPATH
            /\ e[n] = (IF ctx.CgoEnabled THEN "CGO_ENABLED=1" ELSE "CGO_ENABLED=0")
            /\ IsSubseq(SubSeq(e, 1, n - 5), environ)

\* A tool runs with C-interop enabled under an inherited environment that set
\* GOPATH and CGO_ENABLED=0 and one other variable, which is kept.
C6_Witness ==
    /\ Running
    /\ call.in.Context.CgoEnabled
    /\ \E i, j, k \in 1 .. Len(environ) :
           /\ environ[i] = "GOPATH=/gp"
           /\ environ[j] = "CGO_ENABLED=0"
           /\ environ[k] = "PATH=/bin"
    /\ Len(call.env) = 6
    /\ call.env[1] = "PATH=/bin"

---------------------------------------------------------------------------
(* Claims about the tool calls (specification SpecTools). *)

PrefixArgs(op) ==
    CASE op = "Assemble" -> ct.AssemblerArgs
      [] op = "Compile" -> ct.CompilerArgs
      [] op = "Link" -> ct.LinkerArgs
      [] op = "Pack" -> ct.PackerArgs
      [] op = "BuildID" -> ct.BuildIDerArgs

CmdArgsOf(op, args) ==
    CASE op = "Assemble" -> AssembleCmdArgs(ct, args)
      [] op = "Compile" -> CompileCmdArgs(ct, args)
      [] op = "Link" -> LinkCmdArgs(ct, args)

UnknownOpError(op) ==
    CASE op = -1 -> "unknown pack operation -1"
      [] op = 0 -> "unknown pack operation 0"
      [] op = 6 -> "unknown pack operation 6"
      [] op = 12 -> "unknown pack operation 12"

PackCall == call.op = "Pack" /\ "Op" \in DOMAIN call.in

\* C7: a Pack call whose operation is none of the five defined ones has
\* returned "unknown pack operation <value>" with no process started, nothing
\* written to the output sink and nothing printed, DebugLog or not.
C7_UnknownOpFailsBeforeSpawn ==
    (PackCall /\ call.in.Op \notin {1, 2, 3, 4, 5}) =>
        /\ call.st = "returned"
        /\ call.err = UnknownOpError(call.in.Op)
        /\ call.nproc = 0
        /\ call.path = "" /\ call.argv = << >>
        /\ call.stdout = ""
        /\ call.printed = << >>

\* Pack was called with the zero operation while DebugLog was on.
C7_Witness ==
    /\ PackCall
    /\ call.in.Op = 0
    /\ DebugLog
    /\ call.st = "returned"
    /\ call.err = "unknown pack operation 0"

DefinedToken(op) ==
    CASE op = OpAppendNew -> "c"
      [] op = OpPrint -> "p"
      [] op = OpAppend -> "r"
      [] op = OpList -> "t"
      [] op = OpExtract -> "x"

DefinedOps == {OpAppendNew, OpPrint, OpAppend, OpList, OpExtract}

\* C8: the packer runs with the prefix arguments, then the one token of the
\* operation, then the object file, then the names in the caller's order; and
\* the five operations have five different tokens.
C8_PackTokenThenObjectThenNames ==
    /\ (PackCall /\ Running) =>
           /\ call.in.Op \in DefinedOps
           /\ call.argv = PrefixArgs("Pack")
                          \o << DefinedToken(call.in.Op), call.in.ObjectFile >>
                          \o call.in.Names
    /\ \A m, n \in DefinedOps : m # n => PackOpToken(m) # PackOpToken(n)
    /\ Cardinality(DefinedOps) = 5

\* The packer runs an Extract of two names.
C8_Witness ==
    /\ PackCall /\ Running
    /\ call.in.Op = OpExtract
    /\ call.in.ObjectFile = "obj"
    /\ call.in.Names = << "B", "A" >>
    /\ call.argv[Len(call.argv) - 3] = "x"

\* The call in progress was made with every optional field at its zero value
\* (and, for BuildID, with no object file).
ZeroCall ==
    /\ Running
    /\ call.op \in {"Assemble", "Compile", "Link", "BuildID"}
    /\ call.in = IF call.op = "BuildID"
                 THEN [ BuildIDZero EXCEPT !.Context = call.in.Context,
                                           !.WorkingDirectory = call.in.WorkingDirectory ]
                 ELSE [ ZeroArgs(call.op) EXCEPT !.Context = call.in.Context,
                                                 !.WorkingDirectory = call.in.WorkingDirectory,
                                                 !.Files = call.in.Files ]

\* C9 as stated: with all optional fields zero the tool runs with the prefix
\* arguments and the positional files and nothing else, no empty-string token.
C9_ZeroArgsOnlyPrefixAndFiles ==
    ZeroCall =>
        /\ call.argv = PrefixArgs(call.op)
                       \o (IF call.op = "BuildID" THEN << >> ELSE call.in.Files)
        /\ \A i \in DOMAIN call.argv : call.argv[i] # ""

\* args with every optional field that is zero given a value of its own.
Populated(op, args) ==
    [ f \in DOMAIN args |->
        IF f \in StrFields(op) THEN (IF args[f] = "" THEN "<" \o f \o ">" ELSE args[f])
        ELSE IF f \in BoolFields(op) THEN TRUE
        ELSE IF f \in ListFields(op)
             THEN (IF Len(args[f]) = 0 THEN << f \o "1", f \o "2" >> ELSE args[f])
        ELSE IF f \in IntFields(op) THEN (IF args[f] = 0 THEN 7 ELSE args[f])
        ELSE args[f] ]

\* C10: the tokens Assemble, Compile and Link generate for the populated
\* fields appear, in that order, in the tokens generated when every field is
\* populated (the populated ones as they are).
C10_FlagOrderFixed ==
    (Running /\ call.op \in {"Assemble", "Compile", "Link"}) =>
        IsSubseq(call.argv, CmdArgsOf(call.op, Populated(call.op, call.in)))

\* The compiler runs with two of its fields populated, three tokens out of
\* the many of the full command line.
C10_Witness ==
    /\ Running
    /\ call.op = "Compile"
    /\ call.in.OutputFile = "of" /\ call.in.Race /\ call.in.TrimPath = ""
    /\ call.in.Files = << >>
    /\ call.argv = PrefixArgs("Compile") \o << "-o", "of", "-race" >>
    /\ Len(CmdArgsOf("Compile", Populated("Compile", call.in))) > Len(call.argv) + 20

\* The values that follow the occurrences of flag in tokens, in order.
RECURSIVE ValuesAfter(_, _)
ValuesAfter(tokens, flag) ==
    IF Len(tokens) < 2 THEN << >>
    ELSE IF Head(tokens) = flag
         THEN << tokens[2] >> \o ValuesAfter(SubSeq(tokens, 3, Len(tokens)), flag)
         ELSE ValuesAfter(Tail(tokens), flag)

Occurrences(tokens, flag) == Cardinality({i \in DOMAIN tokens : tokens[i] = flag})

\* The flag of each list-valued field.
ListFlag(op, f) ==
    CASE op = "Assemble" /\ f = "IncludeDirs" -> "-I"
      [] op = "Assemble" /\ f = "Defines" -> "-D"
      [] op = "Compile" /\ f = "IncludeDirs" -> "-I"
      [] op = "Compile" /\ f = "ImportMap" -> "-importmap"
      [] op = "Link" /\ f = "LibraryPaths" -> "-L"
      [] op = "Link" /\ f = "StringDefines" -> "-X"

FlagCall == Running /\ call.op \in {"Assemble", "Compile", "Link"}

\* The tokens between the prefix arguments and the input files.
FlagTokens ==
    SubSeq(call.argv, Len(PrefixArgs(call.op)) + 1, Len(call.argv) - Len(call.in.Files))

\* C11: for every list-valued field of Assemble, Compile and Link its flag
\* occurs once per element of the list, each time followed by that element,
\* in the order of the list; an empty list gives no occurrence.
C11_ListFlagPerElement ==
    FlagCall =>
        \A f \in ListFields(call.op) :
            /\ Occurrences(FlagTokens, ListFlag(call.op, f)) = Len(call.in[f])
            /\ ValuesAfter(FlagTokens, ListFlag(call.op, f)) = call.in[f]

\* The linker runs with two library paths and two string defines, in orders
\* that differ.
C11_Witness ==
    /\ FlagCall
    /\ call.op = "Link"
    /\ call.in.LibraryPaths = << "B", "A" >>
    /\ call.in.StringDefines = << "A", "B" >>
    /\ FlagTokens = << "-L", "B", "-L", "A", "-X", "A", "-X", "B" >>

RECURSIVE SumLen(_, _)
SumLen(args, F) ==
    IF F = {} THEN 0
    ELSE LET f == CHOOSE x \in F : TRUE
         IN  Len(args[f]) + SumLen(args, F \ {f})

\* The number of tokens the populated fields of args stand for.
NumFlagTokens(op, args) ==
    2 * Cardinality({f \in StrFields(op) : args[f] # ""})
    + Cardinality({f \in BoolFields(op) : args[f]})
    + 2 * Cardinality({f \in IntFields(op) : args[f] # 0})
    + 2 * SumLen(args, ListFields(op))

\* C12: the tool runs with the configured prefix arguments first, the input
\* files last and in the caller's order, and between them the flag tokens of
\* the populated fields and nothing else.
C12_PrefixFlagsFiles ==
    FlagCall =>
        LET pre == PrefixArgs(call.op)
            files == call.in.Files
            n == Len(call.argv)
        IN  /\ n = Len(pre) + NumFlagTokens(call.op, call.in) + Len(files)
            /\ SubSeq(call.argv, 1, Len(pre)) = pre
            /\ SubSeq(call.argv, n - Len(files) + 1, n) = files
            /\ Len(FlagTokens) > 0 => SubSeq(FlagTokens[1], 1, 1) = "-"
            /\ \A i \in DOMAIN FlagTokens :
                   \/ SubSeq(FlagTokens[i], 1, 1) = "-"
                   \/ i > 1 /\ SubSeq(FlagTokens[i - 1], 1, 1) = "-"

\* The linker of the test configuration runs with a flag and three files.
C12_Witness ==
    /\ FlagCall
    /\ call.op = "Link"
    /\ call.argv = << "-test.run=TestLinker", "--", "-o", "of", "-race", "b", "a", "c" >>

InBuildID == call.op = "BuildID"

\* C15: the build-identifier tool runs with the prefix arguments, then -w
\* exactly when Write is set, then the object file as the last token; a
\* successful call returns what the tool wrote, white space trimmed.
C15_BuildIDArgsAndResult ==
    /\ (InBuildID /\ Running) =>
           /\ call.path = ct.BuildIDer
           /\ call.argv = ct.BuildIDerArgs
                          \o (IF call.in.Write THEN << "-w" >> ELSE << >>)
                          \o << call.in.ObjectFile >>
    /\ (InBuildID /\ call.st = "returned" /\ call.err = Nil) =>
           /\ call.exit = Nil
           /\ IsTrimOf(call.s, call.out)
           /\ call.stdout = ""

\* BuildID returned the identifier the tool printed between white space.
C15_Witness ==
    /\ InBuildID
    /\ call.st = "returned"
    /\ call.err = Nil
    /\ call.out = " abc/def \n"
    /\ call.s = "abc/def"

\* A line that is KEY="VALUE" and nothing else: a key of word characters, =",
\* a value without a quote, and the closing quote as the last character.
WellFormed(line) ==
    \E e \in 1..Len(line) :
        /\ \A i \in 1..e : IsWordChar(At(line, i))
        /\ At(line, e + 1) = "="
        /\ At(line, e + 2) = "\""
        /\ At(line, Len(line)) = "\""
        /\ Len(line) >= e + 3
        /\ \A i \in (e + 3)..(Len(line) - 1) : At(line, i) # "\""

KeyOf(line) == SubSeq(line, 1, (CHOOSE e \in 1..Len(line) : At(line, e + 1) = "=") )

ValueOf(line) == SubSeq(line, Len(KeyOf(line)) + 3, Len(line) - 1)

\* The lines of out, as text between line ends.
LinesOf(out) == ScanLines(out)

\* The value the well-formed lines of out give to key, or def when no
\* well-formed line has that key; of several lines the last one counts.
ValueFor(key, out, def) ==
    LET lines == LinesOf(out)
        hits == {i \in DOMAIN lines : WellFormed(lines[i]) /\ KeyOf(lines[i]) = key}
    IN  IF hits = {} THEN def ELSE ValueOf(lines[Max(hits)])

BuildCtxReturned == call.op = "BuildCtx" /\ call.st = "returned"

\* C13: when `go env` exits successfully BuildCtx returns no error and a
\* context whose GOOS, GOARCH, GOPATH and GOROOT are the values of the
\* well-formed lines with those keys; other lines change nothing and a field
\* whose key is absent keeps its default.
C13_OnlyWellFormedLinesCount ==
    (BuildCtxReturned /\ call.exit = Nil) =>
        /\ call.err = Nil
        /\ call.ctx.GOOS = ValueFor("GOOS", call.out, Default.GOOS)
        /\ call.ctx.GOARCH = ValueFor("GOARCH", call.out, Default.GOARCH)
        /\ call.ctx.GOPATH = ValueFor("GOPATH", call.out, Default.GOPATH)
        /\ call.ctx.GOROOT = ValueFor("GOROOT", call.out, Default.GOROOT)
        /\ call.ctx.CgoEnabled = Default.CgoEnabled

---------------------------------------------------------------------------
(* Claims about all operations on one instance (specification SpecAll). *)

\* Pack has returned from the default case of its switch.
PackRefused == call.op = "Pack" /\ call.st = "returned" /\ "Op" \in DOMAIN call.in

\* A tool call or BuildCtx call that got as far as running its tool.
Spawning == call.st \in {"running", "returned"} /\ ~PackRefused

\* The tool calls and BuildCtx: one subprocess per call, and what cmd.Run
\* returned is what the call returns, with "" from BuildID on an error.
ToolCallSpawnsOne ==
    /\ Spawning => call.nproc = 1
    /\ (Spawning /\ call.st = "returned") => call.err = call.exit
    /\ (Spawning /\ call.st = "returned" /\ call.op = "BuildID" /\ call.exit # Nil) =>
           call.s = ""

\* The Version callers that have started their subprocess and not returned.
HasSpawned == {c \in Callers : pc[c] = "run" \/ (pc[c] = "unlock" /\ ret[c].ran)}

\* A Version call that returns an error has run one subprocess, returns the
\* error of cmd.Run and the empty string.
VersionErrorUnmodified ==
    \A i \in DOMAIN log :
        log[i].err # Nil => log[i].ran /\ log[i].err \in RunErrors /\ log[i].s = ""

\* The statement of C14 as written: every call, those of Version included,
\* spawns exactly one subprocess.
C14_EveryCallSpawnsOne ==
    /\ ToolCallSpawnsOne
    /\ VersionErrorUnmodified
    /\ \A i \in DOMAIN log : log[i].ran
    /\ spawned = Len(log) + Cardinality(HasSpawned)

\* C14: every call of Assemble, Compile, Link, Pack with a known operation,
\* BuildID and BuildCtx spawns exactly one subprocess, and so does every
\* Version call that finds no memoized version; a Version call that finds one
\* spawns none and returns it without error.  The error of a failed
\* subprocess is returned as it is, with "" from BuildID and Version.
C14_OneSpawnUnlessMemoized ==
    /\ ToolCallSpawnsOne
    /\ VersionErrorUnmodified
    /\ \A i \in DOMAIN log : ~log[i].ran => log[i].s # "" /\ log[i].err = Nil
    /\ spawned = Cardinality({i \in DOMAIN log : log[i].ran}) + Cardinality(HasSpawned)
    /\ ctxCount.spawned = ctxCount.calls

\* A Version call was answered from the memoized version after the call that
\* ran the subprocess, and BuildID returns the error of its tool.
C14_Witness ==
    /\ \E i, j \in DOMAIN log : log[i].ran /\ ~log[j].ran
    /\ call.op = "BuildID"
    /\ call.st = "returned"
    /\ call.err = "exit status 1"
    /\ call.s = ""

\* C16: as many `go env` subprocesses have been spawned as BuildCtx calls
\* were made, and what a BuildCtx call returns is determined by the output of
\* its own subprocess: the defaults, overridden by the lines of that output.
C16_BuildCtxNeverCached ==
    /\ ctxCount.spawned = ctxCount.calls
    /\ (call.op = "BuildCtx" /\ call.st # "idle") => call.nproc = 1
    /\ (BuildCtxReturned /\ call.exit = Nil) =>
           call.ctx = [ Default EXCEPT
                          !.GOOS = ValueFor("GOOS", call.out, Default.GOOS),
                          !.GOARCH = ValueFor("GOARCH", call.out, Default.GOARCH),
                          !.GOPATH = ValueFor("GOPATH", call.out, Default.GOPATH),
                          !.GOROOT = ValueFor("GOROOT", call.out, Default.GOROOT) ]
    /\ (BuildCtxReturned /\ call.exit # Nil) => call.ctx = Default

\* The second BuildCtx call, made after Version memoized its result, returns
\* what its own `go env` printed and the default for everything else.
C16_Witness ==
    /\ ctxCount = [calls |-> 2, spawned |-> 2]
    /\ ct.version # ""
    /\ BuildCtxReturned
    /\ call.out = "GOROOT=\"/usr/go\"\n"
    /\ call.ctx = [Default EXCEPT !.GOROOT = "/usr/go"]

\* What the tool of each call of SpecAll is run with, under TestTools.
ExpectedArgv(op) ==
    CASE op = "Assemble" -> TestTools.AssemblerArgs \o << "-I", "A", "a" >>
      [] op = "Compile" -> TestTools.CompilerArgs \o << "-o", "of", "a" >>
      [] op = "Link" -> TestTools.LinkerArgs \o << "-race", "a" >>
      [] op = "Pack" -> TestTools.PackerArgs \o << "r", "of" >>
      [] op = "BuildID" -> TestTools.BuildIDerArgs \o << "-w", "of" >>
      [] op = "BuildCtx" -> TestTools.GoArgs \o << "env" >>

\* A step of the goroutine that makes the tool calls and BuildCtx calls.
ToolStep == call' # call \/ ctxCount' # ctxCount

\* A step of a Version caller.
VersionStep == versionVars' # versionVars \/ ct' # ct

\* Whatever the Version callers are doing, the next tool call can start and
\* the tool that is running can end.
ToolsNeverWait ==
    /\ Idle =>
           /\ ENABLED Assemble(AssembleCall)
           /\ ENABLED Compile(CompileCall)
           /\ ENABLED Link(LinkCall)
           /\ \A a \in PackCalls : ENABLED Pack(a)
           /\ ENABLED BuildID(BuildIDCall)
           /\ ctxCount.calls < MaxCalls => ENABLED BuildCtx
    /\ (Running /\ call.op \in {"Assemble", "Compile", "Link", "Pack"}) =>
           ENABLED ToolExit("", Nil)
    /\ (Running /\ call.op = "BuildID") => ENABLED BuildIDExit("", Nil)
    /\ (Running /\ call.op = "BuildCtx") => ENABLED BuildCtxExit("", Nil)
    /\ call.st = "returned" => ENABLED Return

\* What a call runs and returns is the same wherever the Version callers are.
SameInEveryInterleaving ==
    /\ Running => /\ call.argv = ExpectedArgv(call.op)
                  /\ call.op # "BuildCtx" => call.env = env(call.in.Context)
    /\ (call.st = "returned" /\ ~PackRefused) => call.err = call.exit
    /\ (call.st = "returned" /\ call.op = "BuildID" /\ call.exit = Nil) =>
           call.s = "abc/def"
    /\ (BuildCtxReturned /\ call.out = "GOOS=\"linux\"\n") =>
           call.ctx = [Default EXCEPT !.GOOS = "linux"]
    /\ (BuildCtxReturned /\ call.out = "GOROOT=\"/usr/go\"\n") =>
           call.ctx = [Default EXCEPT !.GOROOT = "/usr/go"]

\* C17: the tool calls and BuildCtx never wait for the Version lock, their
\* steps leave the lock, the memoized version and the Version callers as they
\* are, the steps of Version leave the tool call as it is, and what a tool
\* call runs and returns does not depend on where the Version callers are.
C17_ToolsIndependentOfVersion ==
    /\ [](ToolsNeverWait /\ SameInEveryInterleaving)
    /\ [][ToolStep => UNCHANGED <<ct, versionVars>>]_vars
    /\ [][VersionStep => UNCHANGED <<call, ctxCount>>]_vars

\* While one Version caller runs `go version` under the lock and the other
\* waits for the lock, a Link call has run its tool and returned.
C17_Witness ==
    /\ \E c, d \in Callers : /\ pc[c] = "run" /\ ct.mutex = c
                             /\ pc[d] = "lock"
    /\ call.op = "Link"
    /\ call.st = "returned"
    /\ call.err = Nil

\* The Tool Configuration of an instance: its binaries and prefix arguments.
Configuration(tools) == [tools EXCEPT !.mutex = NoOne, !.version = ""]

\* The binary and the prefix arguments TestTools configures for an operation.
ConfiguredPath(op) ==
    CASE op = "Assemble" -> TestTools.Assembler
      [] op = "Compile" -> TestTools.Compiler
      [] op = "Link" -> TestTools.Linker
      [] op = "Pack" -> TestTools.Packer
      [] op = "BuildID" -> TestTools.BuildIDer
      [] op = "BuildCtx" -> TestTools.Go

ConfiguredPrefix(op) ==
    CASE op = "Assemble" -> TestTools.AssemblerArgs
      [] op = "Compile" -> TestTools.CompilerArgs
      [] op = "Link" -> TestTools.LinkerArgs
      [] op = "Pack" -> TestTools.PackerArgs
      [] op = "BuildID" -> TestTools.BuildIDerArgs
      [] op = "BuildCtx" -> TestTools.GoArgs

\* The tool of a call runs as configured at construction: the configured
\* binary, and the configured prefix followed by this call's own tokens only.
RunsAsConfigured ==
    Running =>
        /\ call.path = ConfiguredPath(call.op)
        /\ SubSeq(call.argv, 1, Len(ConfiguredPrefix(call.op))) = ConfiguredPrefix(call.op)
        /\ Len(call.argv) = Len(ConfiguredPrefix(call.op))
                            + (IF call.op = "Assemble" THEN 3
                               ELSE IF call.op = "Compile" THEN 3
                               ELSE IF call.op = "BuildCtx" THEN 1 ELSE 2)

\* C18: no step of any operation changes a configured binary or a configured
\* prefix-argument list, the configuration stays the one the instance was
\* constructed with, every call runs the configured binary with the
\* configured prefix and its own tokens, and version is the only field of the
\* instance besides the mutex that a step writes.
C18_ConfigurationNeverWritten ==
    /\ [](Configuration(ct) = Configuration(TestTools) /\ RunsAsConfigured)
    /\ [][Configuration(ct') = Configuration(ct)]_vars
    /\ [][ct'.version # ct.version => (ct.version = "" /\ \E c \in Callers : pc[c] = "run")]_vars

\* After Version has memoized its result and two BuildCtx calls were made,
\* an Assemble call runs with the prefix as configured.
C18_Witness ==
    /\ ct.version = "go1.15"
    /\ \E i \in DOMAIN log : log[i].ran
    /\ ctxCount.calls = 2
    /\ Running
    /\ call.op = "Assemble"
    /\ call.argv = TestTools.AssemblerArgs \o << "-I", "A", "a" >>

---------------------------------------------------------------------------
(* Claims about termination of Version (specification SpecFair). *)

\* The caller is inside Version.
InVersion(c) == pc[c] # "idle"

\* The mutex is held by a caller that is between Lock() and its return, and
\* by nobody else.
HeldOnlyInside ==
    /\ \A c \in Callers : ct.mutex = c <=> pc[c] \in {"check", "run", "unlock"}
    /\ ct.mutex \in Callers \cup {NoOne}

\* C19: a caller that has returned from Version does not hold the mutex,
\* whichever way it returned; every caller that enters Version returns; and a
\* caller that waits for the mutex while a failed call is about to return
\* gets past Lock().
C19_VersionReturns ==
    /\ []HeldOnlyInside
    /\ \A c \in Callers : InVersion(c) ~> ~InVersion(c)
    /\ \A c, d \in Callers :
           (pc[c] = "unlock" /\ ret[c].err # Nil /\ pc[d] = "lock") ~> (pc[d] = "check")

\* A call has failed and returned, and a later caller is past Lock().
C19_Witness ==
    /\ \E i \in DOMAIN log : log[i].err # Nil
    /\ \E c \in Callers : pc[c] = "check" /\ ct.mutex = c /\ started[c] > 0

=============================================================================
